---------------------------- MODULE Spec2Model ----------------------------
(***************************************************************************)
(* The form-submission endpoint of caduae-backend                          *)
(* (src/app/api/submit-mail/route.ts): the OPTIONS and POST handlers, the  *)
(* validation of the parsed JSON body, the composition of the e-mail and   *)
(* the single awaited call of transporter.sendMail.                        *)
(*                                                                         *)
(* A JavaScript string is modelled as a sequence of one-character strings, *)
(* so that trim(), the e-mail regular expression, replace(/\n/g, ...) and  *)
(* the template literals are computed character by character.              *)
(***************************************************************************)
EXTENDS Integers, Sequences, FiniteSets, TLC

VARIABLES
  env,          \* process.env: NODE_ENV and SMTP_PASSWORD, read by the module
  transporter,  \* the module-level nodemailer transport (route.ts:152-160)
  req           \* req[r]: the invocation of a handler for request r

vars == <<env, transporter, req>>

----------------------------------------------------------------------------
(* Bounds of the model.                                                    *)

\* number of requests that may be in flight at once
NumRequests == 2
\* longest e-mail string drawn from EmailAlphabet
MaxEmailLen == 5

Requests == 1..NumRequests

----------------------------------------------------------------------------
(* String literals of the source, character by character.                  *)

\* 'contact' (route.ts:54)
S_contact ==
  <<"c", "o", "n", "t", "a", "c", "t">>

\* 'support' (route.ts:54)
S_support ==
  <<"s", "u", "p", "p", "o", "r", "t">>

\* 'quote' (route.ts:54)
S_quote ==
  <<"q", "u", "o", "t", "e">>

\* route.ts:34
S_ARCHITECT ==
  <<"A", "R", "C", "H", "I", "T", "E", "C", "T">>

\* route.ts:34
S_LANDMARK ==
  <<"L", "A", "N", "D", "M", "A", "R", "K">>

\* route.ts:34
S_SPOTLIGHT ==
  <<"S", "P", "O", "T", "L", "I", "G", "H", "T">>

\* route.ts:34
S_FUNDAMENTALS ==
  <<"F", "U", "N", "D", "A", "M", "E", "N", "T", "A", "L", "S">>

\* the separator of VALID_PRODUCTS.join(', ') (route.ts:81)
S_CommaSpace ==
  <<",", " ">>

\* route.ts:45
E_InvalidRequestData ==
  <<"I", "n", "v", "a", "l", "i", "d", " ", "r", "e", "q", "u", "e", "s",
    "t", " ", "d", "a", "t", "a">>

\* route.ts:51
E_FormTypeRequired ==
  <<"f", "o", "r", "m", "T", "y", "p", "e", " ", "i", "s", " ", "r", "e",
    "q", "u", "i", "r", "e", "d">>

\* route.ts:55
E_InvalidFormType ==
  <<"I", "n", "v", "a", "l", "i", "d", " ", "f", "o", "r", "m", "T", "y",
    "p", "e", ".", " ", "M", "u", "s", "t", " ", "b", "e", " ", "c", "o",
    "n", "t", "a", "c", "t", ",", " ", "s", "u", "p", "p", "o", "r", "t",
    ",", " ", "o", "r", " ", "q", "u", "o", "t", "e">>

\* route.ts:59
E_NameRequired ==
  <<"n", "a", "m", "e", " ", "i", "s", " ", "r", "e", "q", "u", "i", "r",
    "e", "d">>

\* route.ts:63
E_ValidEmailRequired ==
  <<"V", "a", "l", "i", "d", " ", "e", "m", "a", "i", "l", " ", "i", "s",
    " ", "r", "e", "q", "u", "i", "r", "e", "d">>

\* route.ts:69
E_PhoneRequired ==
  <<"p", "h", "o", "n", "e", " ", "i", "s", " ", "r", "e", "q", "u", "i",
    "r", "e", "d", " ", "f", "o", "r", " ", "c", "o", "n", "t", "a", "c",
    "t", " ", "a", "n", "d", " ", "s", "u", "p", "p", "o", "r", "t", " ",
    "f", "o", "r", "m", "s">>

\* route.ts:72
E_MessageRequired ==
  <<"m", "e", "s", "s", "a", "g", "e", " ", "i", "s", " ", "r", "e", "q",
    "u", "i", "r", "e", "d", " ", "f", "o", "r", " ", "c", "o", "n", "t",
    "a", "c", "t", " ", "a", "n", "d", " ", "s", "u", "p", "p", "o", "r",
    "t", " ", "f", "o", "r", "m", "s">>

\* route.ts:78
E_ProductRequired ==
  <<"p", "r", "o", "d", "u", "c", "t", " ", "i", "s", " ", "r", "e", "q",
    "u", "i", "r", "e", "d", " ", "f", "o", "r", " ", "q", "u", "o", "t",
    "e", " ", "f", "o", "r", "m">>

\* the fixed part of the template literal at route.ts:81
E_ProductMustBeOneOf ==
  <<"p", "r", "o", "d", "u", "c", "t", " ", "m", "u", "s", "t", " ", "b",
    "e", " ", "o", "n", "e", " ", "o", "f", ":", " ">>

\* route.ts:210
M_ValidationFailed ==
  <<"V", "a", "l", "i", "d", "a", "t", "i", "o", "n", " ", "f", "a", "i",
    "l", "e", "d">>

\* route.ts:237
M_Success ==
  <<"T", "h", "a", "n", "k", " ", "y", "o", "u", "!", " ", "Y", "o", "u",
    "r", " ", "m", "e", "s", "s", "a", "g", "e", " ", "h", "a", "s", " ",
    "b", "e", "e", "n", " ", "s", "e", "n", "t", " ", "s", "u", "c", "c",
    "e", "s", "s", "f", "u", "l", "l", "y", ".">>

\* route.ts:246
M_Fallback ==
  <<"A", "n", " ", "e", "r", "r", "o", "r", " ", "o", "c", "c", "u", "r",
    "r", "e", "d", " ", "w", "h", "i", "l", "e", " ", "s", "e", "n", "d",
    "i", "n", "g", " ", "y", "o", "u", "r", " ", "m", "e", "s", "s", "a",
    "g", "e", ".", " ", "P", "l", "e", "a", "s", "e", " ", "t", "r", "y",
    " ", "a", "g", "a", "i", "n", " ", "l", "a", "t", "e", "r", ".">>

\* route.ts:236
S_success ==
  <<"s", "u", "c", "c", "e", "s", "s">>

\* route.ts:209, 249
S_error ==
  <<"e", "r", "r", "o", "r">>

\* route.ts:226
S_noreply ==
  <<"n", "o", "r", "e", "p", "l", "y", "@", "c", "a", "d", "u", "a", "e",
    ".", "c", "o", "m">>

\* route.ts:227
S_info ==
  <<"i", "n", "f", "o", "@", "c", "a", "d", "u", "a", "e", ".", "c", "o",
    "m">>

\* route.ts:102, 120
S_br ==
  <<"<", "b", "r", ">">>

\* route.ts:95
T_ContactSubject ==
  <<"N", "e", "w", " ", "C", "o", "n", "t", "a", "c", "t", " ", "F", "o",
    "r", "m", " ", "S", "u", "b", "m", "i", "s", "s", "i", "o", "n", " ",
    "-", " ">>

\* route.ts:113
T_SupportSubject ==
  <<"N", "e", "w", " ", "S", "u", "p", "p", "o", "r", "t", " ", "R", "e",
    "q", "u", "e", "s", "t", " ", "-", " ">>

\* route.ts:131
T_QuoteSubject ==
  <<"N", "e", "w", " ", "Q", "u", "o", "t", "e", " ", "R", "e", "q", "u",
    "e", "s", "t", " ", "-", " ">>

\* route.ts:131
T_Dash ==
  <<" ", "-", " ">>

\* route.ts:96-103, fixed part 1 of the template literal
T_ContactHtml1 ==
  <<"\n", " ", " ", " ", " ", " ", " ", "<", "h", "2", ">", "N", "e", "w",
    " ", "C", "o", "n", "t", "a", "c", "t", " ", "F", "o", "r", "m", " ",
    "S", "u", "b", "m", "i", "s", "s", "i", "o", "n", "<", "/", "h", "2",
    ">", "\n", " ", " ", " ", " ", " ", " ", "<", "p", ">", "<", "s", "t",
    "r", "o", "n", "g", ">", "N", "a", "m", "e", ":", "<", "/", "s", "t",
    "r", "o", "n", "g", ">", " ">>

\* route.ts:96-103, fixed part 2 of the template literal
T_ContactHtml2 ==
  <<"<", "/", "p", ">", "\n", " ", " ", " ", " ", " ", " ", "<", "p", ">",
    "<", "s", "t", "r", "o", "n", "g", ">", "E", "m", "a", "i", "l", ":",
    "<", "/", "s", "t", "r", "o", "n", "g", ">", " ">>

\* route.ts:96-103, fixed part 3 of the template literal
T_ContactHtml3 ==
  <<"<", "/", "p", ">", "\n", " ", " ", " ", " ", " ", " ", "<", "p", ">",
    "<", "s", "t", "r", "o", "n", "g", ">", "P", "h", "o", "n", "e", ":",
    "<", "/", "s", "t", "r", "o", "n", "g", ">", " ">>

\* route.ts:96-103, fixed part 4 of the template literal
T_ContactHtml4 ==
  <<"<", "/", "p", ">", "\n", " ", " ", " ", " ", " ", " ", "<", "p", ">",
    "<", "s", "t", "r", "o", "n", "g", ">", "M", "e", "s", "s", "a", "g",
    "e", ":", "<", "/", "s", "t", "r", "o", "n", "g", ">", "<", "/", "p",
    ">", "\n", " ", " ", " ", " ", " ", " ", "<", "p", ">">>

\* route.ts:96-103, fixed part 5 of the template literal
T_ContactHtml5 ==
  <<"<", "/", "p", ">", "\n", " ", " ", " ", " ">>

\* route.ts:104-111, fixed part 1 of the template literal
T_ContactText1 ==
  <<"\n", "N", "e", "w", " ", "C", "o", "n", "t", "a", "c", "t", " ", "F",
    "o", "r", "m", " ", "S", "u", "b", "m", "i", "s", "s", "i", "o", "n",
    "\n", "\n", "N", "a", "m", "e", ":", " ">>

\* route.ts:104-111, fixed part 2 of the template literal
T_ContactText2 ==
  <<"\n", "E", "m", "a", "i", "l", ":", " ">>

\* route.ts:104-111, fixed part 3 of the template literal
T_ContactText3 ==
  <<"\n", "P", "h", "o", "n", "e", ":", " ">>

\* route.ts:104-111, fixed part 4 of the template literal
T_ContactText4 ==
  <<"\n", "M", "e", "s", "s", "a", "g", "e", ":", " ">>

\* route.ts:104-111, fixed part 5 of the template literal
T_ContactText5 ==
  <<"\n", " ", " ", " ", " ">>

\* route.ts:114-121, fixed part 1 of the template literal
T_SupportHtml1 ==
  <<"\n", " ", " ", " ", " ", " ", " ", "<", "h", "2", ">", "N", "e", "w",
    " ", "S", "u", "p", "p", "o", "r", "t", " ", "R", "e", "q", "u", "e",
    "s", "t", "<", "/", "h", "2", ">", "\n", " ", " ", " ", " ", " ", " ",
    "<", "p", ">", "<", "s", "t", "r", "o", "n", "g", ">", "N", "a", "m",
    "e", ":", "<", "/", "s", "t", "r", "o", "n", "g", ">", " ">>

\* route.ts:114-121, fixed part 2 of the template literal
T_SupportHtml2 ==
  <<"<", "/", "p", ">", "\n", " ", " ", " ", " ", " ", " ", "<", "p", ">",
    "<", "s", "t", "r", "o", "n", "g", ">", "E", "m", "a", "i", "l", ":",
    "<", "/", "s", "t", "r", "o", "n", "g", ">", " ">>

\* route.ts:114-121, fixed part 3 of the template literal
T_SupportHtml3 ==
  <<"<", "/", "p", ">", "\n", " ", " ", " ", " ", " ", " ", "<", "p", ">",
    "<", "s", "t", "r", "o", "n", "g", ">", "P", "h", "o", "n", "e", ":",
    "<", "/", "s", "t", "r", "o", "n", "g", ">", " ">>

\* route.ts:114-121, fixed part 4 of the template literal
T_SupportHtml4 ==
  <<"<", "/", "p", ">", "\n", " ", " ", " ", " ", " ", " ", "<", "p", ">",
    "<", "s", "t", "r", "o", "n", "g", ">", "M", "e", "s", "s", "a", "g",
    "e", ":", "<", "/", "s", "t", "r", "o", "n", "g", ">", "<", "/", "p",
    ">", "\n", " ", " ", " ", " ", " ", " ", "<", "p", ">">>

\* route.ts:114-121, fixed part 5 of the template literal
T_SupportHtml5 ==
  <<"<", "/", "p", ">", "\n", " ", " ", " ", " ">>

\* route.ts:122-129, fixed part 1 of the template literal
T_SupportText1 ==
  <<"\n", "N", "e", "w", " ", "S", "u", "p", "p", "o", "r", "t", " ", "R",
    "e", "q", "u", "e", "s", "t", "\n", "\n", "N", "a", "m", "e", ":", " ">>

\* route.ts:122-129, fixed part 2 of the template literal
T_SupportText2 ==
  <<"\n", "E", "m", "a", "i", "l", ":", " ">>

\* route.ts:122-129, fixed part 3 of the template literal
T_SupportText3 ==
  <<"\n", "P", "h", "o", "n", "e", ":", " ">>

\* route.ts:122-129, fixed part 4 of the template literal
T_SupportText4 ==
  <<"\n", "M", "e", "s", "s", "a", "g", "e", ":", " ">>

\* route.ts:122-129, fixed part 5 of the template literal
T_SupportText5 ==
  <<"\n", " ", " ", " ", " ">>

\* route.ts:132-138, fixed part 1 of the template literal
T_QuoteHtml1 ==
  <<"\n", " ", " ", " ", " ", " ", " ", "<", "h", "2", ">", "N", "e", "w",
    " ", "Q", "u", "o", "t", "e", " ", "R", "e", "q", "u", "e", "s", "t",
    "<", "/", "h", "2", ">", "\n", " ", " ", " ", " ", " ", " ", "<", "p",
    ">", "<", "s", "t", "r", "o", "n", "g", ">", "N", "a", "m", "e", ":",
    "<", "/", "s", "t", "r", "o", "n", "g", ">", " ">>

\* route.ts:132-138, fixed part 2 of the template literal
T_QuoteHtml2 ==
  <<"<", "/", "p", ">", "\n", " ", " ", " ", " ", " ", " ", "<", "p", ">",
    "<", "s", "t", "r", "o", "n", "g", ">", "E", "m", "a", "i", "l", ":",
    "<", "/", "s", "t", "r", "o", "n", "g", ">", " ">>

\* route.ts:132-138, fixed part 3 of the template literal
T_QuoteHtml3 ==
  <<"<", "/", "p", ">", "\n", " ", " ", " ", " ", " ", " ">>

\* route.ts:132-138, fixed part 4 of the template literal
T_QuoteHtml4 ==
  <<"\n", " ", " ", " ", " ", " ", " ", "<", "p", ">", "<", "s", "t", "r",
    "o", "n", "g", ">", "P", "r", "o", "d", "u", "c", "t", ":", "<", "/",
    "s", "t", "r", "o", "n", "g", ">", " ">>

\* route.ts:132-138, fixed part 5 of the template literal
T_QuoteHtml5 ==
  <<"<", "/", "p", ">", "\n", " ", " ", " ", " ">>

\* route.ts:139-145, fixed part 1 of the template literal
T_QuoteText1 ==
  <<"\n", "N", "e", "w", " ", "Q", "u", "o", "t", "e", " ", "R", "e", "q",
    "u", "e", "s", "t", "\n", "\n", "N", "a", "m", "e", ":", " ">>

\* route.ts:139-145, fixed part 2 of the template literal
T_QuoteText2 ==
  <<"\n", "E", "m", "a", "i", "l", ":", " ">>

\* route.ts:139-145, fixed part 3 of the template literal
T_QuoteText3 ==
  <<"\n">>

\* route.ts:139-145, fixed part 4 of the template literal
T_QuoteText4 ==
  <<"P", "r", "o", "d", "u", "c", "t", ":", " ">>

\* route.ts:139-145, fixed part 5 of the template literal
T_QuoteText5 ==
  <<"\n", " ", " ", " ", " ">>

\* route.ts:136
T_QuoteHtmlMobileOpen ==
  <<"<", "p", ">", "<", "s", "t", "r", "o", "n", "g", ">", "M", "o", "b",
    "i", "l", "e", ":", "<", "/", "s", "t", "r", "o", "n", "g", ">", " ">>

\* route.ts:136
T_QuoteHtmlMobileClose ==
  <<"<", "/", "p", ">">>

\* route.ts:144
T_QuoteTextMobile ==
  <<"M", "o", "b", "i", "l", "e", ":", " ">>

\* the escape \n closing the Mobile line at route.ts:144
S_NL ==
  <<"\n">>

\* Object.prototype.toString of a plain object, used by the template literals
S_ObjectObject ==
  <<"[", "o", "b", "j", "e", "c", "t", " ", "O", "b", "j", "e", "c", "t",
    "]">>

\* message of the TypeError a template literal raises for an object whose toString and valueOf give no primitive
E_CannotConvert ==
  <<"C", "a", "n", "n", "o", "t", " ", "c", "o", "n", "v", "e", "r", "t",
    " ", "o", "b", "j", "e", "c", "t", " ", "t", "o", " ", "p", "r", "i",
    "m", "i", "t", "i", "v", "e", " ", "v", "a", "l", "u", "e">>

\* message of the SyntaxError request.json() raises for a malformed body (route.ts:202)
E_JsonSyntax ==
  <<"U", "n", "e", "x", "p", "e", "c", "t", "e", "d", " ", "e", "n", "d",
    " ", "o", "f", " ", "J", "S", "O", "N", " ", "i", "n", "p", "u", "t">>

----------------------------------------------------------------------------
(* JavaScript values as JSON.parse produces them.                          *)
(*   k    : "undefined" (an absent property), "null", "boolean", "number", *)
(*          "string", "object", "array"                                    *)
(*   s    : the string itself for a string; otherwise the result of the    *)
(*          ToString conversion a template literal applies                 *)
(*   prim : FALSE for an object whose conversion to a primitive raises a   *)
(*          TypeError (own "toString" property that is not callable, as in *)
(*          {"toString": 1}); TRUE otherwise                               *)

JSValue(k, s, prim) == [k |-> k, s |-> s, prim |-> prim]

Undefined == JSValue("undefined", <<"u", "n", "d", "e", "f", "i", "n", "e", "d">>, TRUE)
Null == JSValue("null", <<"n", "u", "l", "l">>, TRUE)
JSFalse == JSValue("boolean", <<"f", "a", "l", "s", "e">>, TRUE)
JSTrue == JSValue("boolean", <<"t", "r", "u", "e">>, TRUE)
Num(digits) == JSValue("number", digits, TRUE)
Str(s) == JSValue("string", s, TRUE)
PlainObject == JSValue("object", S_ObjectObject, TRUE)
ObjectNoPrimitive == JSValue("object", <<>>, FALSE)
EmptyArray == JSValue("array", <<>>, TRUE)

\* the typeof operator
typeof(v) == IF v.k \in {"null", "object", "array"} THEN "object" ELSE v.k

\* ToBoolean, as applied by !x, x && y, x ? a : b and x || y
Truthy(v) ==
  CASE v.k \in {"undefined", "null"} -> FALSE
    [] v.k = "boolean" -> v = JSTrue
    [] v.k = "number" -> v.s # <<"0">>
    [] v.k = "string" -> v.s # <<>>
    [] OTHER -> TRUE

\* the characters String.prototype.trim removes and \s matches (those the
\* model's alphabets contain)
WhiteSpace == {" ", "\t", "\n", "\r"}

RECURSIVE trimStart(_)
trimStart(s) ==
  IF s # <<>> /\ Head(s) \in WhiteSpace THEN trimStart(Tail(s)) ELSE s

RECURSIVE trimEnd(_)
trimEnd(s) ==
  IF s # <<>> /\ s[Len(s)] \in WhiteSpace
    THEN trimEnd(SubSeq(s, 1, Len(s) - 1))
    ELSE s

\* String.prototype.trim
trim(s) == trimEnd(trimStart(s))

\* faulty variant of join: the separator is dropped
RECURSIVE joinNoSeparator(_, _)
joinNoSeparator(list, sep) ==
  IF list = <<>> THEN <<>> ELSE list[1] \o joinNoSeparator(Tail(list), sep)

\* Array.prototype.join
RECURSIVE join(_, _)
join(list, sep) ==
  IF list = <<>> THEN <<>>
  ELSE IF Len(list) = 1 THEN list[1]
  ELSE list[1] \o sep \o join(Tail(list), sep)

\* String.prototype.replace(/\n/g, '<br>') (route.ts:102, 120)
RECURSIVE replaceNewlines(_)
replaceNewlines(s) ==
  IF s = <<>> THEN <<>>
  ELSE (IF Head(s) = "\n" THEN S_br ELSE <<Head(s)>>) \o replaceNewlines(Tail(s))

----------------------------------------------------------------------------
(* The parsed body: a value and, when it is an object, its properties.     *)

FieldNames == {"formType", "name", "email", "phone", "message", "product", "mobile"}

NoProps == [f \in FieldNames |-> Undefined]

Props(formType, name, email, phone, message, product, mobile) ==
  [formType |-> formType, name |-> name, email |-> email, phone |-> phone,
   message |-> message, product |-> product, mobile |-> mobile]

\* what request.json() gives: parsed = FALSE when it rejects with a
\* SyntaxError, else the value and its properties
Body(parsed, v, props) == [parsed |-> parsed, v |-> v, props |-> props]

MalformedBody == Body(FALSE, Undefined, NoProps)
ScalarBody(v) == Body(TRUE, v, NoProps)
ObjectBody(props) == Body(TRUE, PlainObject, props)

----------------------------------------------------------------------------
(* Validation (route.ts:33-86).                                            *)

VALID_PRODUCTS == <<S_ARCHITECT, S_LANDMARK, S_SPOTLIGHT, S_FUNDAMENTALS>>

FORM_TYPES == <<S_contact, S_support, S_quote>>

\* Array.prototype.includes on an array of strings: strict equality, so
\* only a string value can be included
includes(list, v) == v.k = "string" /\ \E i \in 1..Len(list) : list[i] = v.s

\* a character matched by [^\s@]
EmailChar(c) == c \notin WhiteSpace /\ c # "@"

\* /^[^\s@]+@[^\s@]+\.[^\s@]+$/.test(email): some split of the whole string
\* into local part, "@", domain, ".", tld with the three parts non-empty
isValidEmail(email) ==
  \E i, j \in 1..Len(email) :
    /\ 1 < i /\ i + 1 < j /\ j < Len(email)
    /\ email[i] = "@"
    /\ email[j] = "."
    /\ \A n \in 1..Len(email) : n \notin {i, j} => EmailChar(email[n])

Invalid(error) == [valid |-> FALSE, error |-> error]

\* { valid: true }: the error property is absent (modelled as the empty
\* string, which is falsy like undefined at route.ts:210)
Valid == [valid |-> TRUE, error |-> <<>>]

\* faulty variant of MissingString: the trim() test is left out
MissingStringNoTrim(v) == ~Truthy(v) \/ typeof(v) # "string"

\* !x || typeof x !== 'string' || x.trim() === ''
MissingString(v) == ~Truthy(v) \/ typeof(v) # "string" \/ trim(v.s) = <<>>

validateFormData(data) ==
  LET formData == data.props IN
  IF ~Truthy(data.v) \/ typeof(data.v) # "object" THEN Invalid(E_InvalidRequestData)
  ELSE IF ~Truthy(formData.formType) THEN Invalid(E_FormTypeRequired)
  ELSE IF ~includes(FORM_TYPES, formData.formType) THEN Invalid(E_InvalidFormType)
  ELSE IF MissingString(formData.name) THEN Invalid(E_NameRequired)
  ELSE IF \/ ~Truthy(formData.email)
          \/ typeof(formData.email) # "string"
          \/ ~isValidEmail(formData.email.s)
    THEN Invalid(E_ValidEmailRequired)
  ELSE IF /\ formData.formType.s \in {S_contact, S_support}
          /\ MissingString(formData.phone)
    THEN Invalid(E_PhoneRequired)
  ELSE IF /\ formData.formType.s \in {S_contact, S_support}
          /\ MissingString(formData.message)
    THEN Invalid(E_MessageRequired)
  ELSE IF formData.formType.s = S_quote /\ MissingString(formData.product)
    THEN Invalid(E_ProductRequired)
  ELSE IF formData.formType.s = S_quote /\ ~includes(VALID_PRODUCTS, formData.product)
    THEN Invalid(E_ProductMustBeOneOf \o join(VALID_PRODUCTS, S_CommaSpace))
  ELSE Valid

----------------------------------------------------------------------------
(* Composition of the e-mail (route.ts:88-149).                            *)

\* the result of formatEmailContent; threw = TRUE when a template literal
\* raised a TypeError while converting an interpolated value to a string
Content(subject, html, text) ==
  [threw |-> FALSE, subject |-> subject, html |-> html, text |-> text]

ContentThrew == [threw |-> TRUE, subject |-> <<>>, html |-> <<>>, text |-> <<>>]

NoContent == [threw |-> FALSE, subject |-> <<>>, html |-> <<>>, text |-> <<>>]

formatContact(data) ==
  Content(
    T_ContactSubject \o data.name.s,
    T_ContactHtml1 \o data.name.s \o T_ContactHtml2 \o data.email.s
      \o T_ContactHtml3 \o data.phone.s \o T_ContactHtml4
      \o replaceNewlines(data.message.s) \o T_ContactHtml5,
    T_ContactText1 \o data.name.s \o T_ContactText2 \o data.email.s
      \o T_ContactText3 \o data.phone.s \o T_ContactText4
      \o data.message.s \o T_ContactText5)

formatSupport(data) ==
  Content(
    T_SupportSubject \o data.name.s,
    T_SupportHtml1 \o data.name.s \o T_SupportHtml2 \o data.email.s
      \o T_SupportHtml3 \o data.phone.s \o T_SupportHtml4
      \o replaceNewlines(data.message.s) \o T_SupportHtml5,
    T_SupportText1 \o data.name.s \o T_SupportText2 \o data.email.s
      \o T_SupportText3 \o data.phone.s \o T_SupportText4
      \o data.message.s \o T_SupportText5)

\* data.mobile ? `<p><strong>Mobile:</strong> ${data.mobile}</p>` : ''
htmlMobile(mobile) ==
  IF Truthy(mobile)
    THEN T_QuoteHtmlMobileOpen \o mobile.s \o T_QuoteHtmlMobileClose
    ELSE <<>>

\* faulty variant of textMobile: the line is written whatever mobile is
textMobileAlways(mobile) == T_QuoteTextMobile \o mobile.s \o S_NL

\* data.mobile ? `Mobile: ${data.mobile}\n` : ''
textMobile(mobile) ==
  IF Truthy(mobile) THEN T_QuoteTextMobile \o mobile.s \o S_NL ELSE <<>>

formatQuote(data) ==
  IF Truthy(data.mobile) /\ ~data.mobile.prim
    THEN ContentThrew
    ELSE Content(
      T_QuoteSubject \o data.name.s \o T_Dash \o data.product.s,
      T_QuoteHtml1 \o data.name.s \o T_QuoteHtml2 \o data.email.s
        \o T_QuoteHtml3 \o htmlMobile(data.mobile) \o T_QuoteHtml4
        \o data.product.s \o T_QuoteHtml5,
      T_QuoteText1 \o data.name.s \o T_QuoteText2 \o data.email.s
        \o T_QuoteText3 \o textMobile(data.mobile) \o T_QuoteText4
        \o data.product.s \o T_QuoteText5)

formatEmailContent(data) ==
  IF data.formType = Str(S_contact) THEN formatContact(data)
  ELSE IF data.formType = Str(S_support) THEN formatSupport(data)
  ELSE IF data.formType = Str(S_quote) THEN formatQuote(data)
  ELSE Content(<<>>, <<>>, <<>>)

----------------------------------------------------------------------------
(* CORS headers (route.ts:162-184).                                        *)

\* request.headers.get('origin'): null when the header is absent
NoOrigin == [present |-> FALSE, value |-> ""]
Origin(value) == [present |-> TRUE, value |-> value]

allowedOrigins ==
  <<"http://localhost:3000", "https://caduae.com", "https://www.caduae.com">>

\* faulty variant of getCorsHeaders: any origin sent is echoed back
getCorsHeadersReflect(origin) ==
  [AccessControlAllowOrigin |->
     IF origin.present /\ origin.value # "" THEN origin.value
     ELSE IF env.NODE_ENV = "production" THEN "https://caduae.com" ELSE "*",
   AccessControlAllowMethods |-> "POST, OPTIONS",
   AccessControlAllowHeaders |-> "Content-Type",
   AccessControlMaxAge |-> "86400"]

getCorsHeaders(origin) ==
  LET allowedOrigin ==
        IF /\ origin.present /\ origin.value # ""
           /\ \E i \in 1..Len(allowedOrigins) : allowedOrigins[i] = origin.value
          THEN origin.value
          ELSE IF env.NODE_ENV = "production" THEN "https://caduae.com" ELSE "*"
  IN  [AccessControlAllowOrigin |-> allowedOrigin,
       AccessControlAllowMethods |-> "POST, OPTIONS",
       AccessControlAllowHeaders |-> "Content-Type",
       AccessControlMaxAge |-> "86400"]

NoHeaders ==
  [AccessControlAllowOrigin |-> "", AccessControlAllowMethods |-> "",
   AccessControlAllowHeaders |-> "", AccessControlMaxAge |-> ""]

----------------------------------------------------------------------------
(* The transport (route.ts:151-160).                                       *)

\* process.env.SMTP_PASSWORD || ''  (an unset variable is modelled as "")
createTransport ==
  [host |-> "mail.caduae.com", port |-> 465, secure |-> TRUE,
   auth |-> [user |-> "noreply@caduae.com", pass |-> env.SMTP_PASSWORD]]

----------------------------------------------------------------------------
(* Values the awaited calls raise.                                         *)

\* isError: the value is an instance of Error; hasMessage: it has a message
\* property (an Error always has one, possibly the empty string)
Raised(isError, hasMessage, message) ==
  [isError |-> isError, hasMessage |-> hasMessage, message |-> message]

NothingRaised == Raised(FALSE, FALSE, <<>>)

\* what request.json() raises for a malformed body, and what a template
\* literal raises for a value without a primitive
JsonSyntaxError == Raised(TRUE, TRUE, E_JsonSyntax)
ConvertTypeError == Raised(TRUE, TRUE, E_CannotConvert)

\* rejections of transporter.sendMail: an Error with a message, an Error
\* with an empty message, a non-Error object with a message, a value
\* without one
RelayErrors ==
  { Raised(TRUE, TRUE, <<"E", "A", "U", "T", "H">>),
    Raised(TRUE, TRUE, <<>>),
    Raised(FALSE, TRUE, <<"b", "u", "s", "y">>),
    Raised(FALSE, FALSE, <<>>) }

----------------------------------------------------------------------------
(* Responses (NextResponse) and the state of one invocation.               *)

NoBody == [present |-> FALSE, status |-> <<>>, message |-> <<>>]

\* NextResponse.json({ status, message }, { status, headers })
JsonResponse(code, status, message, headers) ==
  [kind |-> "response", code |-> code,
   body |-> [present |-> TRUE, status |-> status, message |-> message],
   headers |-> headers]

\* new NextResponse(null, { status, headers })
EmptyResponse(code, headers) ==
  [kind |-> "response", code |-> code, body |-> NoBody, headers |-> headers]

\* the handler has not returned yet
NoResponse == [kind |-> "none", code |-> 0, body |-> NoBody, headers |-> NoHeaders]

\* faulty variant of MailOptions: the submission is kept in one place that
\* all invocations share, so replyTo is whatever request 1 holds
MailOptionsShared(formData, content) ==
  [from |-> S_noreply, to |-> S_info, subject |-> content.subject,
   html |-> content.html, text |-> content.text,
   replyTo |-> req[1].body.props.email.s]

\* the argument of transporter.sendMail (route.ts:225-232)
MailOptions(formData, content) ==
  [from |-> S_noreply, to |-> S_info, subject |-> content.subject,
   html |-> content.html, text |-> content.text, replyTo |-> formData.email.s]

NotValidated == [valid |-> FALSE, error |-> <<>>]

\*   pc        : "idle"  no request yet
\*               "json"  POST suspended on await request.json()
\*               "send"  POST suspended on await transporter.sendMail(...)
\*               "done"  the handler has returned
\*   validated : validateFormData has been called; validation is its result
\*   formatted : formatEmailContent has been called; content is its result
\*   mails     : the arguments of this invocation's calls of sendMail, in order
\*   relay     : "none", "pending", "fulfilled" or "rejected": the promise
\*               sendMail returned
\*   settled   : what the settled promise was rejected with
\*   caught    : the catch block ran; logged is what console.error received
Idle ==
  [pc |-> "idle", method |-> "NONE", origin |-> NoOrigin,
   body |-> MalformedBody, corsHeaders |-> NoHeaders,
   validated |-> FALSE, validation |-> NotValidated,
   formatted |-> FALSE, content |-> NoContent,
   mails |-> <<>>, relay |-> "none", settled |-> NothingRaised,
   caught |-> FALSE, logged |-> NothingRaised,
   response |-> NoResponse]

\* faulty variant of Catch: the message property is used whenever the raised
\* value has one that is not empty
CatchAnyMessage(q, error) ==
  LET errorMessage ==
        IF error.hasMessage /\ error.message # <<>> THEN error.message
                                                     ELSE M_Fallback
  IN  [q EXCEPT !.pc = "done", !.caught = TRUE, !.logged = error,
                !.response = JsonResponse(500, S_error, errorMessage, q.corsHeaders)]

\* faulty variant of Catch: the error is thrown on to the caller
CatchRethrow(q, error) ==
  [q EXCEPT !.pc = "done", !.caught = TRUE, !.logged = error,
            !.response = [kind |-> "fault", code |-> 0, body |-> NoBody,
                          headers |-> NoHeaders]]

\* the catch block (route.ts:244-257)
Catch(q, error) ==
  LET errorMessage == IF error.isError THEN error.message ELSE M_Fallback
  IN  [q EXCEPT !.pc = "done", !.caught = TRUE, !.logged = error,
                !.response = JsonResponse(500, S_error, errorMessage, q.corsHeaders)]

\* the validation failure response (route.ts:206-217)
RejectInvalid(q, validation) ==
  [q EXCEPT !.pc = "done",
            !.response = JsonResponse(400, S_error,
                           IF validation.error # <<>> THEN validation.error
                                                      ELSE M_ValidationFailed,
                           q.corsHeaders)]

\* faulty variant of SendMail: the promise is not awaited and the handler
\* returns the success response at once
SendMailNotAwaited(q, formData, content) ==
  [q EXCEPT !.pc = "done", !.relay = "pending",
            !.mails = Append(@, MailOptions(formData, content)),
            !.response = JsonResponse(200, S_success, M_Success, q.corsHeaders)]

\* await transporter.sendMail({...}): the call is made and the handler
\* suspends on the promise (route.ts:225-232)
SendMail(q, formData, content) ==
  [q EXCEPT !.pc = "send", !.relay = "pending",
            !.mails = Append(@, MailOptions(formData, content))]

\* faulty variant of Submit: the 400 response is built but not returned, so
\* the handler goes on to compose and send
SubmitWithoutReturn(q) ==
  LET validation == validateFormData(q.body)
      v == [q EXCEPT !.validated = TRUE, !.validation = validation]
      formData == q.body.props
      content == formatEmailContent(formData)
      f == [v EXCEPT !.formatted = TRUE, !.content = content]
  IN  IF content.threw THEN Catch(f, ConvertTypeError)
      ELSE SendMail(f, formData, content)

\* route.ts:205-232, from the parsed body to the call of sendMail
Submit(q) ==
  LET validation == validateFormData(q.body)
      v == [q EXCEPT !.validated = TRUE, !.validation = validation]
      formData == q.body.props
      content == formatEmailContent(formData)
      f == [v EXCEPT !.formatted = TRUE, !.content = content]
  IN  IF ~validation.valid THEN RejectInvalid(v, validation)
      ELSE IF content.threw THEN Catch(f, ConvertTypeError)
      ELSE SendMail(f, formData, content)

\* the success response (route.ts:234-243)
RespondSuccess(q) ==
  [q EXCEPT !.pc = "done",
            !.response = JsonResponse(200, S_success, M_Success, q.corsHeaders)]

----------------------------------------------------------------------------
(* Actions.                                                                *)

\* OPTIONS(request) (route.ts:187-195): no await, one step
OptionsFrom(r, origins) ==
  /\ req[r].pc = "idle"
  /\ \E origin \in origins :
       req' = [req EXCEPT ![r] =
                 [@ EXCEPT !.pc = "done", !.method = "OPTIONS", !.origin = origin,
                           !.corsHeaders = getCorsHeaders(origin),
                           !.response = EmptyResponse(200, getCorsHeaders(origin))]]
  /\ UNCHANGED <<env, transporter>>

\* POST(request) up to await request.json() (route.ts:197-202)
PostFrom(r, arrivals) ==
  /\ req[r].pc = "idle"
  /\ \E a \in arrivals :
       req' = [req EXCEPT ![r] =
                 [@ EXCEPT !.pc = "json", !.method = "POST", !.origin = a.origin,
                           !.corsHeaders = getCorsHeaders(a.origin),
                           !.body = a.body]]
  /\ UNCHANGED <<env, transporter>>

\* request.json() settles and POST runs up to its next await or its return
\* (route.ts:202-232, or the catch block for a malformed body)
BodyParsed(r) ==
  /\ req[r].pc = "json"
  /\ req' = [req EXCEPT ![r] =
               IF req[r].body.parsed THEN Submit(@) ELSE Catch(@, JsonSyntaxError)]
  /\ UNCHANGED <<env, transporter>>

\* the relay fulfils the promise of sendMail; POST resumes and returns
\* (route.ts:234-243)
SendFulfilled(r) ==
  /\ req[r].pc = "send"
  /\ req[r].relay = "pending"
  /\ req' = [req EXCEPT ![r] = RespondSuccess([@ EXCEPT !.relay = "fulfilled"])]
  /\ UNCHANGED <<env, transporter>>

\* the relay rejects the promise of sendMail; POST resumes in the catch
\* block (route.ts:244-257)
SendRejected(r) ==
  /\ req[r].pc = "send"
  /\ req[r].relay = "pending"
  /\ \E e \in RelayErrors :
       req' = [req EXCEPT ![r] =
                 Catch([@ EXCEPT !.relay = "rejected", !.settled = e], e)]
  /\ UNCHANGED <<env, transporter>>

----------------------------------------------------------------------------
(* Requests the model draws.                                               *)

AllOrigins ==
  { NoOrigin, Origin(""), Origin("http://localhost:3000"),
    Origin("https://caduae.com"), Origin("https://www.caduae.com"),
    Origin("https://evil.example"), Origin("https://caduae.com/") }

SampleOrigins == { Origin("https://www.caduae.com"), Origin("https://evil.example") }

EmailAlphabet == {"a", "@", ".", " "}

EmailStrings == UNION { [1..n -> EmailAlphabet] : n \in 0..MaxEmailLen }

FormTypeSamples ==
  { Undefined, Null, Str(<<>>), Str(S_contact), Str(S_support), Str(S_quote),
    Str(<<"o", "t", "h", "e", "r">>), Str(<<"Q", "u", "o", "t", "e">>),
    Num(<<"0">>), Num(<<"1">>), JSFalse, JSTrue, PlainObject,
    JSValue("array", S_quote, TRUE) }

NameSamples ==
  { Undefined, Null, Str(<<>>), Str(<<" ">>), Str(<<"\t", "\n">>),
    Str(<<"J", "a", "n", "e">>), Str(<<" ", "J", " ">>), Num(<<"7">>),
    JSTrue, PlainObject,
    Str(<<"J", "\n", "M", "o", "b", "i", "l", "e", ":", " ", "1">>) }

EmailSamples ==
  { Undefined, Null, Num(<<"1">>), PlainObject,
    Str(<<"j", "a", "n", "e", "@", "x", ".", "c", "o", "m">>),
    Str(<<"a", "@", "b", ".", "c", "\n">>), Str(<<"a", "\t", "@", "b", ".", "c">>) }
    \cup { Str(s) : s \in EmailStrings }

PhoneSamples ==
  { Undefined, Null, Str(<<>>), Str(<<" ", " ">>), Str(<<"1", "2", "3">>),
    Num(<<"1">>), Num(<<"0">>), PlainObject }

MessageSamples ==
  { Undefined, Null, Str(<<>>), Str(<<"\n">>), Str(<<"H", "i">>),
    Str(<<"H", "i", "\n", "T", "h", "e", "r", "e">>), Num(<<"1">>), JSTrue }

ProductSamples ==
  { Undefined, Null, Str(<<>>), Str(<<" ">>), Str(S_ARCHITECT), Str(S_LANDMARK),
    Str(S_SPOTLIGHT), Str(S_FUNDAMENTALS), Str(<<"X">>),
    Str(<<"a", "r", "c", "h", "i", "t", "e", "c", "t">>),
    Str(S_ARCHITECT \o <<" ">>), Num(<<"1">>), JSTrue,
    JSValue("array", S_ARCHITECT, TRUE) }

MobileSamples ==
  { Undefined, Null, Str(<<>>), Str(<<"0", "5", "0">>), Str(<<" ">>),
    Str(<<"1", "\n", "2">>), Num(<<"0">>), Num(<<"5">>), JSFalse, JSTrue,
    PlainObject, ObjectNoPrimitive, EmptyArray }

Jane == Str(<<"J", "a", "n", "e">>)
JaneEmail == Str(<<"j", "a", "n", "e", "@", "x", ".", "c", "o", "m">>)

ValidContact ==
  Props(Str(S_contact), Jane, JaneEmail, Str(<<"1", "2", "3">>),
        Str(<<"H", "i", "\n", "T", "h", "e", "r", "e">>), Undefined, Undefined)

ValidQuote ==
  Props(Str(S_quote), Jane, JaneEmail, Undefined, Undefined, Str(S_LANDMARK),
        Str(<<"0", "5", "0">>))

\* one field varied over all its samples, the others as in a valid submission
SweepProps ==
  UNION { { [base EXCEPT !.formType = v] : v \in FormTypeSamples }
          \cup { [base EXCEPT !.name = v] : v \in NameSamples }
          \cup { [base EXCEPT !.email = v] : v \in EmailSamples }
          \cup { [base EXCEPT !.phone = v] : v \in PhoneSamples }
          \cup { [base EXCEPT !.message = v] : v \in MessageSamples }
          \cup { [base EXCEPT !.product = v] : v \in ProductSamples }
          \cup { [base EXCEPT !.mobile = v] : v \in MobileSamples }
        : base \in {ValidContact, ValidQuote} }

\* every combination of a few values of each field, so that several rules
\* are violated at once
CrossProps ==
  { Props(t, n, e, p, m, pr, mo) :
      t \in {Undefined, Str(S_contact), Str(S_support), Str(S_quote), Str(<<"X">>)},
      n \in {Undefined, Str(<<" ">>), Jane,
             Str(<<"J", "\n", "M", "o", "b", "i", "l", "e", ":", " ", "1">>)},
      e \in {Num(<<"1">>), Str(<<"a", "@", "b">>), JaneEmail},
      p \in {Undefined, Str(<<" ">>), Str(<<"1">>)},
      m \in {Str(<<>>), Str(<<"H", "i">>)},
      pr \in {Undefined, Str(<<" ">>), Str(<<"X">>), Str(S_ARCHITECT)},
      mo \in {Undefined, Str(<<>>), Str(<<"0", "5", "0">>), ObjectNoPrimitive} }

ScalarBodies ==
  { ScalarBody(v) : v \in {Null, JSFalse, JSTrue, Num(<<"0">>), Num(<<"1">>),
                           Str(<<>>), Str(<<"x">>)} }

ArrayBody == Body(TRUE, EmptyArray, NoProps)

AllBodies ==
  {MalformedBody, ArrayBody} \cup ScalarBodies
    \cup { ObjectBody(p) : p \in SweepProps \cup CrossProps }

\* the bodies of the concurrent specification: malformed, not an object, an
\* invalid quote, a valid contact, a valid quote, and a valid quote whose
\* mobile cannot be converted to a string
SampleBodies ==
  { MalformedBody, ScalarBody(Null),
    ObjectBody([ValidQuote EXCEPT !.product = Str(<<"X">>)]),
    ObjectBody(ValidContact), ObjectBody(ValidQuote),
    ObjectBody([ValidQuote EXCEPT !.mobile = ObjectNoPrimitive]) }

Arrival(origin, body) == [origin |-> origin, body |-> body]

SampleArrivals == { Arrival(o, b) : o \in SampleOrigins, b \in SampleBodies }

AllArrivals ==
  { Arrival(Origin("https://caduae.com"), b) : b \in AllBodies }
    \cup { Arrival(o, b) : o \in AllOrigins, b \in SampleBodies }

----------------------------------------------------------------------------
(* Specifications.                                                         *)

\* module initialisation: the environment is read and the transport created
InitEnv(modes) ==
  /\ env \in [NODE_ENV : modes, SMTP_PASSWORD : {""}]
  /\ transporter = createTransport
  /\ req = [r \in Requests |-> Idle]

Init == InitEnv({"production", "development"})

Options(r) == OptionsFrom(r, SampleOrigins)

Post(r) == PostFrom(r, SampleArrivals)

\* several requests in flight, interleaved at the awaits
Next ==
  \E r \in Requests :
    \/ Options(r)
    \/ Post(r)
    \/ BodyParsed(r)
    \/ SendFulfilled(r)
    \/ SendRejected(r)

Spec == Init /\ [][Next]_vars

\* one request at a time, drawn from all the bodies and origins
InitSingle == InitEnv({"production", "development", "test"})

OptionsAny == OptionsFrom(1, AllOrigins)

PostAny == PostFrom(1, AllArrivals)

NextSingle ==
  \/ OptionsAny
  \/ PostAny
  \/ BodyParsed(1)
  \/ SendFulfilled(1)
  \/ SendRejected(1)

SpecSingle == InitSingle /\ [][NextSingle]_vars

\* a preflight and a submission side by side, over all the origins
CorsArrivals == { Arrival(o, b) : o \in AllOrigins, b \in SampleBodies }

PostCors == PostFrom(2, CorsArrivals)

NextCors ==
  \/ OptionsAny
  \/ PostCors
  \/ BodyParsed(2)
  \/ SendFulfilled(2)
  \/ SendRejected(2)

SpecCors == InitSingle /\ [][NextCors]_vars

----------------------------------------------------------------------------
(* Properties.                                                             *)

\* the handler of request r is POST and has got past await request.json()
PostPastJson(q) == q.method = "POST" /\ q.pc \in {"send", "done"}

\* the body of request r parsed and validateFormData accepts it
ValidPayload(q) == q.body.parsed /\ validateFormData(q.body).valid

\* C1: a POST whose parsed payload fails validateFormData is answered with
\* HTTP 400 and {status: 'error', message: <the validation error>}, and in
\* that request formatEmailContent is never called and sendMail is never
\* invoked; an e-mail is composed or a send started only for a payload that
\* validateFormData accepts.
C1_InvalidNeverRelayed ==
  \A r \in Requests :
    LET q == req[r] IN
    /\ (PostPastJson(q) /\ q.body.parsed /\ ~validateFormData(q.body).valid)
         => /\ q.pc = "done"
            /\ q.response.kind = "response"
            /\ q.response.code = 400
            /\ q.response.body.present
            /\ q.response.body.status = S_error
            /\ q.response.body.message = validateFormData(q.body).error
            /\ ~q.formatted
            /\ q.mails = <<>>
            /\ q.relay = "none"
    /\ (q.formatted \/ q.mails # <<>> \/ q.relay # "none") => ValidPayload(q)

\* a quote with an unknown product and an otherwise sendable payload has
\* been rejected
C1_Witness ==
  \E r \in Requests :
    /\ req[r].pc = "done"
    /\ req[r].method = "POST"
    /\ req[r].body.parsed
    /\ req[r].body.props.formType = Str(S_quote)
    /\ req[r].body.props.product = Str(<<"X">>)
    /\ req[r].response.code = 400

\* C2: the 200 'success' response exists only once the sendMail promise of
\* the same request is fulfilled; it never exists while that promise is
\* pending, not started or rejected, and no handler has returned with its
\* sendMail promise still pending.
C2_SuccessOnlyAfterRelay ==
  \A r \in Requests :
    LET q == req[r] IN
    /\ (q.method = "POST" /\ q.response.kind # "none"
          /\ (q.response.code = 200 \/ q.response.body.status = S_success))
         => q.relay = "fulfilled" /\ Len(q.mails) = 1
    /\ q.pc = "done" => q.relay # "pending"
    /\ q.relay = "pending" => q.pc = "send" /\ q.response.kind = "none"

\* a submission has been answered with success while another one is still
\* waiting for the relay
C2_Witness ==
  \E r, o \in Requests :
    /\ req[r].pc = "done"
    /\ req[r].response.code = 200
    /\ req[r].response.body.status = S_success
    /\ req[r].relay = "fulfilled"
    /\ req[o].relay = "pending"

\* the sendMail call a valid payload's request must make
ExpectedMail(q) ==
  [from |-> <<"n", "o", "r", "e", "p", "l", "y", "@", "c", "a", "d", "u", "a", "e",
              ".", "c", "o", "m">>,
   to |-> <<"i", "n", "f", "o", "@", "c", "a", "d", "u", "a", "e", ".", "c", "o", "m">>,
   replyTo |-> q.body.props.email.s]

MailAddresses(m) == [from |-> m.from, to |-> m.to, replyTo |-> m.replyTo]

\* C3 (as claimed): sendMail is invoked exactly once for each request whose
\* payload is valid and never for any other request, never twice in one
\* request, and each invocation has from 'noreply@caduae.com', to
\* 'info@caduae.com' and replyTo equal to that request's email field.
C3_OncePerValidRequest ==
  \A r \in Requests :
    LET q == req[r] IN
    /\ Len(q.mails) <= 1
    /\ q.mails # <<>> => q.method = "POST" /\ ValidPayload(q)
    /\ \A i \in 1..Len(q.mails) : MailAddresses(q.mails[i]) = ExpectedMail(q)
    /\ (PostPastJson(q) /\ ValidPayload(q)) => Len(q.mails) = 1

\* C3 (what holds): at most one invocation per request, none for a request
\* whose payload is not valid, with the fixed addresses and the request's
\* own email as replyTo; two identical valid requests give two invocations.
C3_AtMostOncePerRequest ==
  \A r \in Requests :
    LET q == req[r] IN
    /\ Len(q.mails) <= 1
    /\ q.mails # <<>> => q.method = "POST" /\ ValidPayload(q)
    /\ \A i \in 1..Len(q.mails) : MailAddresses(q.mails[i]) = ExpectedMail(q)
    /\ (PostPastJson(q) /\ ValidPayload(q) /\ ~q.caught) => Len(q.mails) = 1

\* the four CORS headers of a response to a request with this origin
CorsHeadersOf(origin, h) ==
  /\ h = getCorsHeaders(origin)
  /\ h.AccessControlAllowOrigin # ""
  /\ h.AccessControlAllowMethods = "POST, OPTIONS"
  /\ h.AccessControlAllowHeaders = "Content-Type"
  /\ h.AccessControlMaxAge = "86400"

\* C4: every POST that has returned (after a validation failure, a body
\* that does not parse, a relay failure or a relay success) has returned a
\* response with status 200, 400 or 500, a body {status, message} with
\* status 'success' or 'error', and the four CORS headers computed from the
\* request's origin; none has ended with an error thrown to the caller.
C4_EveryExitStructured ==
  \A r \in Requests :
    LET q == req[r] IN
    (q.method = "POST" /\ q.pc = "done")
      => /\ q.response.kind = "response"
         /\ q.response.code \in {200, 400, 500}
         /\ q.response.body.present
         /\ q.response.body.status \in {S_success, S_error}
         /\ (q.response.body.status = S_success) <=> (q.response.code = 200)
         /\ CorsHeadersOf(q.origin, q.response.headers)

\* a body that does not parse has been answered through the catch block
C4_Witness ==
  \E r \in Requests :
    /\ req[r].method = "POST"
    /\ req[r].pc = "done"
    /\ ~req[r].body.parsed
    /\ req[r].caught
    /\ req[r].response.code = 500
    /\ req[r].response.body.present

\* C5 (as claimed): when sendMail rejects, the response is 500 with status
\* 'error' and the message is the raised value's message when it has one
\* and the generic fallback otherwise, for every kind of raised value (for
\* an empty message either reading is accepted: the empty message or the
\* fallback).
C5_MessageWhenPresent ==
  \A r \in Requests :
    LET q == req[r] IN
    (q.pc = "done" /\ q.relay = "rejected")
      => /\ q.response.code = 500
         /\ q.response.body.status = S_error
         /\ IF q.settled.hasMessage /\ q.settled.message # <<>>
              THEN q.response.body.message = q.settled.message
              ELSE IF q.settled.hasMessage
                THEN q.response.body.message \in {<<>>, M_Fallback}
                ELSE q.response.body.message = M_Fallback

\* C5 (amended): when sendMail rejects, the response is 500 with status
\* 'error', and the message is the raised value's message when the value
\* is an instance of Error, even an empty message, and the generic fallback
\* for every other value, even one that has a message.
C5_MessageOfErrorInstances ==
  \A r \in Requests :
    LET q == req[r] IN
    (q.pc = "done" /\ q.relay = "rejected")
      => /\ q.response.code = 500
         /\ q.response.body.status = S_error
         /\ q.response.body.message =
              IF q.settled.isError THEN q.settled.message ELSE M_Fallback

\* the relay has rejected with an object that is not an Error and has a
\* message, and the caller has been given the generic fallback
C5_Witness ==
  \E r \in Requests :
    /\ req[r].pc = "done"
    /\ req[r].relay = "rejected"
    /\ ~req[r].settled.isError
    /\ req[r].settled.hasMessage
    /\ req[r].settled.message # <<>>
    /\ req[r].response.body.message = M_Fallback

----------------------------------------------------------------------------
(* The six validation rules, stated independently of validateFormData.     *)

IsString(v) == v.k = "string"

NonBlankString(v) == IsString(v) /\ \E i \in 1..Len(v.s) : v.s[i] \notin WhiteSpace

\* local@domain.tld: no white space, exactly one "@", something before it,
\* and after it a "." that has something on both sides
LocalAtDomainTld(s) ==
  LET ats == { i \in 1..Len(s) : s[i] = "@" } IN
  /\ \A i \in 1..Len(s) : s[i] \notin WhiteSpace
  /\ Cardinality(ats) = 1
  /\ \A a \in ats :
       /\ a > 1
       /\ \E d \in (a + 2)..(Len(s) - 1) : s[d] = "."

FormTypeIs(data, types) ==
  IsString(data.props.formType) /\ data.props.formType.s \in types

ProductSet == {S_ARCHITECT, S_LANDMARK, S_SPOTLIGHT, S_FUNDAMENTALS}

\* rule n holds of the parsed body (5 is split into phone, 5, and message, 6;
\* the product rule is 7)
Rule(n, data) ==
  CASE n = 1 -> data.v.k \in {"object", "array"}
    [] n = 2 -> FormTypeIs(data, {S_contact, S_support, S_quote})
    [] n = 3 -> NonBlankString(data.props.name)
    [] n = 4 -> IsString(data.props.email) /\ LocalAtDomainTld(data.props.email.s)
    [] n = 5 -> FormTypeIs(data, {S_contact, S_support})
                  => NonBlankString(data.props.phone)
    [] n = 6 -> FormTypeIs(data, {S_contact, S_support})
                  => NonBlankString(data.props.message)
    [] n = 7 -> FormTypeIs(data, {S_quote})
                  => /\ IsString(data.props.product)
                     /\ data.props.product.s # <<>>
                     /\ data.props.product.s \in ProductSet

RuleNumbers == 1..7

\* the error texts that report a violation of rule n
RuleErrors(n) ==
  CASE n = 1 -> {E_InvalidRequestData}
    [] n = 2 -> {E_FormTypeRequired, E_InvalidFormType}
    [] n = 3 -> {E_NameRequired}
    [] n = 4 -> {E_ValidEmailRequired}
    [] n = 5 -> {E_PhoneRequired}
    [] n = 6 -> {E_MessageRequired}
    [] n = 7 -> {E_ProductRequired,
                 E_ProductMustBeOneOf \o S_ARCHITECT \o S_CommaSpace \o S_LANDMARK
                   \o S_CommaSpace \o S_SPOTLIGHT \o S_CommaSpace \o S_FUNDAMENTALS}

Violated(data) == { n \in RuleNumbers : ~Rule(n, data) }

FirstViolated(data) ==
  CHOOSE n \in Violated(data) : \A m \in Violated(data) : n <= m

\* C6: validateFormData returns valid exactly when none of the rules is
\* violated, and otherwise the error of the first violated rule in the
\* order payload, formType, name, email, phone, message, product.
C6_FirstViolatedRule ==
  \A r \in Requests :
    LET q == req[r] IN
    q.validated
      => /\ q.validation.valid <=> (Violated(q.body) = {})
         /\ ~q.validation.valid
              => q.validation.error \in RuleErrors(FirstViolated(q.body))
         /\ q.validation.valid => q.validation.error = <<>>

\* a contact payload violating the name, e-mail, phone and message rules at
\* once has been reported as a name error
C6_Witness ==
  \E r \in Requests :
    /\ req[r].validated
    /\ {3, 4, 5, 6} \subseteq Violated(req[r].body)
    /\ req[r].validation.error = E_NameRequired

\* 'product must be one of: ARCHITECT, LANDMARK, SPOTLIGHT, FUNDAMENTALS'
ProductListMessage ==
  <<"p", "r", "o", "d", "u", "c", "t", " ", "m", "u", "s", "t", " ", "b",
    "e", " ", "o", "n", "e", " ", "o", "f", ":", " ", "A", "R", "C", "H",
    "I", "T", "E", "C", "T", ",", " ", "L", "A", "N", "D", "M", "A", "R",
    "K", ",", " ", "S", "P", "O", "T", "L", "I", "G", "H", "T", ",", " ",
    "F", "U", "N", "D", "A", "M", "E", "N", "T", "A", "L", "S">>

\* a POST that has returned, whose body is an object with formType 'quote'
\* and a product outside the product set
QuoteWithUnknownProduct(q) ==
  /\ q.method = "POST"
  /\ q.pc = "done"
  /\ q.body.parsed
  /\ q.body.v.k = "object"
  /\ q.body.props.formType = Str(S_quote)
  /\ ~(IsString(q.body.props.product) /\ q.body.props.product.s \in ProductSet)

Is400(q, message) ==
  /\ q.response.kind = "response"
  /\ q.response.code = 400
  /\ q.response.body.present
  /\ q.response.body.status = S_error
  /\ q.response.body.message = message

\* C7 (as claimed): every quote payload whose product is outside the
\* product set is answered with HTTP 400 and the message listing the set.
C7_UnknownProductListsSet ==
  \A r \in Requests :
    QuoteWithUnknownProduct(req[r]) => Is400(req[r], ProductListMessage)

\* C7 (amended): every quote payload whose product is outside the product
\* set is answered with HTTP 400; the message lists the set when name and
\* e-mail are valid and the product is a string that is not blank, it is
\* 'product is required for quote form' when name and e-mail are valid and
\* the product is absent, not a string or blank, and it is the name or
\* e-mail error otherwise.
C7_UnknownProductRejected ==
  \A r \in Requests :
    LET q == req[r]
        p == q.body.props
    IN  QuoteWithUnknownProduct(q)
          => Is400(q,
               IF ~Rule(3, q.body) THEN E_NameRequired
               ELSE IF ~Rule(4, q.body) THEN E_ValidEmailRequired
               ELSE IF ~NonBlankString(p.product) THEN E_ProductRequired
               ELSE ProductListMessage)

\* a quote with a valid name and e-mail and the product 'architect' has
\* been answered with the list of products
C7_Witness ==
  \E r \in Requests :
    /\ QuoteWithUnknownProduct(req[r])
    /\ Rule(3, req[r].body) /\ Rule(4, req[r].body)
    /\ req[r].body.props.product = Str(<<"a", "r", "c", "h", "i", "t", "e", "c", "t">>)
    /\ req[r].response.body.message = ProductListMessage

\* the Access-Control-Allow-Origin value for an origin and a mode
ExpectedAllowOrigin(origin, mode) ==
  IF origin.present
       /\ origin.value \in {"http://localhost:3000", "https://caduae.com",
                            "https://www.caduae.com"}
    THEN origin.value
    ELSE IF mode = "production" THEN "https://caduae.com" ELSE "*"

\* C8: the headers of every response (OPTIONS, and POST whatever its body
\* and outcome) are those of getCorsHeaders for the request's origin and
\* the deployment mode: Allow-Origin echoes an allow-listed origin and is
\* otherwise 'https://caduae.com' in production and '*' in any other mode;
\* the other three are 'POST, OPTIONS', 'Content-Type' and '86400'; two
\* responses to the same origin carry identical headers.
C8_CorsHeaders ==
  /\ \A r \in Requests :
       LET q == req[r] IN
       q.response.kind # "none"
         => /\ q.response.headers.AccessControlAllowOrigin
                 = ExpectedAllowOrigin(q.origin, env.NODE_ENV)
            /\ q.response.headers.AccessControlAllowMethods = "POST, OPTIONS"
            /\ q.response.headers.AccessControlAllowHeaders = "Content-Type"
            /\ q.response.headers.AccessControlMaxAge = "86400"
  /\ \A r, o \in Requests :
       (req[r].response.kind # "none" /\ req[o].response.kind # "none"
          /\ req[r].origin = req[o].origin)
         => req[r].response.headers = req[o].response.headers

\* in production, a preflight and a failed submission from the same
\* unrecognised origin have both been answered
C8_Witness ==
  /\ env.NODE_ENV = "production"
  /\ \E r, o \in Requests :
       /\ req[r].method = "OPTIONS" /\ req[r].pc = "done"
       /\ req[o].method = "POST" /\ req[o].pc = "done"
       /\ req[o].response.code = 500
       /\ req[r].origin = Origin("https://evil.example")
       /\ req[o].origin = req[r].origin
       /\ req[o].response.headers.AccessControlAllowOrigin = "https://caduae.com"

\* the invocation that a request's own method, origin, body and relay
\* outcome determine, at the point q has reached
Alone(q) ==
  LET h == getCorsHeaders(q.origin)
      atJson == [Idle EXCEPT !.pc = "json", !.method = "POST", !.origin = q.origin,
                             !.corsHeaders = h, !.body = q.body]
      atSend == IF q.body.parsed THEN Submit(atJson) ELSE Catch(atJson, JsonSyntaxError)
  IN  IF q.pc = "idle" THEN Idle
      ELSE IF q.method = "OPTIONS"
        THEN [Idle EXCEPT !.pc = "done", !.method = "OPTIONS", !.origin = q.origin,
                          !.corsHeaders = h, !.response = EmptyResponse(200, h)]
      ELSE IF q.pc = "json" THEN atJson
      ELSE IF q.relay = "fulfilled"
        THEN RespondSuccess([atSend EXCEPT !.relay = "fulfilled"])
      ELSE IF q.relay = "rejected"
        THEN Catch([atSend EXCEPT !.relay = "rejected", !.settled = q.settled],
                   q.settled)
      ELSE atSend

\* C9: under every interleaving of the requests in flight, each request's
\* response (status, body, headers) and the arguments of its sendMail call
\* are those its own method, origin, body and relay outcome determine; the
\* transport configuration is the one created at start-up.
C9_NoInterference ==
  /\ \A r \in Requests :
       /\ req[r].response = Alone(req[r]).response
       /\ req[r].mails = Alone(req[r]).mails
       /\ req[r] = Alone(req[r])
  /\ transporter =
       [host |-> "mail.caduae.com", port |-> 465, secure |-> TRUE,
        auth |-> [user |-> "noreply@caduae.com", pass |-> env.SMTP_PASSWORD]]

\* a contact submission is suspended on its relay call while a quote
\* submitted meanwhile has been sent and answered
C9_Witness ==
  \E r, o \in Requests :
    /\ req[r].pc = "send" /\ req[r].relay = "pending"
    /\ req[r].body.props.formType = Str(S_contact)
    /\ req[o].pc = "done" /\ req[o].relay = "fulfilled"
    /\ req[o].body.props.formType = Str(S_quote)
    /\ req[o].mails # req[r].mails

\* the text has a line that begins with 'Mobile:'
HasMobileLine(text) ==
  \E i \in 1..Len(text) :
    /\ i = 1 \/ text[i - 1] = "\n"
    /\ i + 6 <= Len(text)
    /\ SubSeq(text, i, i + 6) = <<"M", "o", "b", "i", "l", "e", ":">>

\* a quote that passed validation and for which a text body was composed
ComposedQuote(q) ==
  /\ q.formatted
  /\ ~q.content.threw
  /\ q.body.props.formType = Str(S_quote)

\* C10 (as claimed): the text body of a valid quote has no line beginning
\* 'Mobile:' when mobile is absent, whatever the name, e-mail and product,
\* and has one when mobile is set to a string, the empty string included.
C10_MobileLineIffSet ==
  \A r \in Requests :
    ComposedQuote(req[r])
      => /\ req[r].body.props.mobile.k = "undefined"
              => ~HasMobileLine(req[r].content.text)
         /\ req[r].body.props.mobile.k = "string"
              => HasMobileLine(req[r].content.text)

\* C10 (amended): when the name contains no line feed, the text body of a
\* valid quote has a line beginning 'Mobile:' if and only if mobile is
\* truthy: absent, null, false, 0 and the empty string give no such line.
C10_MobileLineIffTruthy ==
  \A r \in Requests :
    (ComposedQuote(req[r])
       /\ \A i \in 1..Len(req[r].body.props.name.s) :
            req[r].body.props.name.s[i] # "\n")
      => (HasMobileLine(req[r].content.text) <=> Truthy(req[r].body.props.mobile))

\* a valid quote whose mobile is the empty string has been composed
C10_Witness ==
  \E r \in Requests :
    /\ ComposedQuote(req[r])
    /\ req[r].body.props.mobile = Str(<<>>)
    /\ req[r].body.props.name = Jane
    /\ ~HasMobileLine(req[r].content.text)

============================================================================
